---- MODULE Spec2Model ----
(***************************************************************************)
(* The Magnets puzzle solver of src/src/csp.rs, src/src/fc.rs and          *)
(* src/src/mac.rs: the layout deriver (CSP::new), the state store          *)
(* (assign / unassign), the consistency checker, the arc generator, the    *)
(* revise primitive with both propagators, the two heuristics and the      *)
(* backtracking search driver.                                             *)
(*                                                                         *)
(* Rows, columns and domino indices are 1-based here (0-based in the       *)
(* source); pole numbers stay 0 and 1.  The recursion of CSP::backtrack is *)
(* an explicit stack of frames.                                            *)
(***************************************************************************)
EXTENDS Integers, Sequences, FiniteSets, TLC

(* ------------------------------ bounds -------------------------------- *)
MaxRows == 2
MaxCols == 2
MaxTarget == 1
MaxMarker == 2
MaxFilledCols == 3
MaxTargetSum == 4
WideRows == 3
WideCols == 3
MaxWideTarget == 2

(* ------------------------------ values -------------------------------- *)
Pole1PositivePole2Negative == "Pole1PositivePole2Negative"
Pole2PositivePole1Negative == "Pole2PositivePole1Negative"
ValueEmpty == "Empty"
ValueUnassigned == "Unassigned"

Positive == "Positive"
Negative == "Negative"
CellEmpty == "CellEmpty"
CellUnassigned == "CellUnassigned"

FC == "FC"
MAC == "MAC"

SignBased == "SignBased"
LimitBased == "LimitBased"

None == [some |-> FALSE, value |-> <<>>]
Some(a) == [some |-> TRUE, value |-> a]

Cells(R, C) == (1..R) \X (1..C)

(* ------------------------------ CSP::new ------------------------------ *)
\* The k-th cell of the row-major scan "for i in 0..row_size, for j in 0..col_size".
ScanCell(k, C) == <<((k - 1) \div C) + 1, ((k - 1) % C) + 1>>

\* One iteration of the scan: st = [raw, variables, assoc].
ScanStep(st, cell, R, C) ==
  LET i == cell[1]
      j == cell[2]
      idx == Len(st.variables) + 1
  IN  IF st.raw[cell] = 1
      THEN IF i + 1 > R
           THEN st
           ELSE [raw |-> [st.raw EXCEPT ![cell] = 2, ![<<i + 1, j>>] = 2],
                 variables |-> Append(st.variables,
                                      [index |-> idx, poles |-> <<cell, <<i + 1, j>>>>]),
                 assoc |-> [st.assoc EXCEPT ![cell] = idx, ![<<i + 1, j>>] = idx]]
      ELSE IF st.raw[cell] = 0
      THEN IF j + 1 > C
           THEN st
           ELSE [raw |-> [st.raw EXCEPT ![cell] = 2, ![<<i, j + 1>>] = 2],
                 variables |-> Append(st.variables,
                                      [index |-> idx, poles |-> <<cell, <<i, j + 1>>>>]),
                 assoc |-> [st.assoc EXCEPT ![cell] = idx, ![<<i, j + 1>>] = idx]]
      ELSE st

RECURSIVE Scan(_, _, _, _)
Scan(k, st, R, C) ==
  IF k > R * C THEN st ELSE Scan(k + 1, ScanStep(st, ScanCell(k, C), R, C), R, C)

\* board_variable_association starts at the first index for every cell
\* (vec![vec![0; col_size]; row_size]), so an orphan cell names domino 1 here.
New(R, C, raw) ==
  Scan(1, [raw |-> raw, variables |-> <<>>, assoc |-> [c \in Cells(R, C) |-> 1]], R, C)

(* ------------------------------- state -------------------------------- *)
VARIABLES row_size, col_size,
          row_pos_poles, row_neg_poles, col_pos_poles, col_neg_poles,
          board, board_variable_association, variables, inference_mode,
          curr_row_pos_poles, curr_row_neg_poles,
          curr_col_pos_poles, curr_col_neg_poles,
          assignment, stack, call_domains, pc, result, fc_result

puzzle == <<row_size, col_size, row_pos_poles, row_neg_poles, col_pos_poles,
            col_neg_poles, board_variable_association, variables>>
store == <<board, curr_row_pos_poles, curr_row_neg_poles,
           curr_col_pos_poles, curr_col_neg_poles>>
vars == <<puzzle, store, inference_mode, assignment, stack, call_domains, pc,
          result, fc_result>>

Pole(var_index, pole_number) == variables[var_index].poles[pole_number + 1]

\* The state store as one value: what assign and unassign read and write.
Store == [board |-> board,
          rp |-> curr_row_pos_poles, rn |-> curr_row_neg_poles,
          cp |-> curr_col_pos_poles, cn |-> curr_col_neg_poles,
          assignment |-> assignment]

(* ---------------------------- state store ----------------------------- *)
Inc(f, i) == [f EXCEPT ![i] = @ + 1]
Dec(f, i) == [f EXCEPT ![i] = @ - 1]

\* CSP::assign: [ok, s], s the store after the call.
assign(s, value, var_index) ==
  LET p0 == Pole(var_index, 0)
      p1 == Pole(var_index, 1)
      free == s.board[p0] = CellUnassigned /\ s.board[p1] = CellUnassigned
  IN  IF value = Pole1PositivePole2Negative
      THEN IF free
           THEN [ok |-> TRUE,
                 s |-> [board |-> [s.board EXCEPT ![p0] = Positive, ![p1] = Negative],
                        rp |-> Inc(s.rp, p0[1]), cp |-> Inc(s.cp, p0[2]),
                        rn |-> Inc(s.rn, p1[1]), cn |-> Inc(s.cn, p1[2]),
                        assignment |-> [s.assignment EXCEPT ![var_index] = value]]]
           ELSE [ok |-> FALSE, s |-> s]
      ELSE IF value = Pole2PositivePole1Negative
      THEN IF free
           THEN [ok |-> TRUE,
                 s |-> [board |-> [s.board EXCEPT ![p0] = Negative, ![p1] = Positive],
                        rn |-> Inc(s.rn, p0[1]), cn |-> Inc(s.cn, p0[2]),
                        rp |-> Inc(s.rp, p1[1]), cp |-> Inc(s.cp, p1[2]),
                        assignment |-> [s.assignment EXCEPT ![var_index] = value]]]
           ELSE [ok |-> FALSE, s |-> s]
      ELSE IF value = ValueEmpty
      THEN [ok |-> TRUE,
            s |-> [s EXCEPT !.board = [s.board EXCEPT ![p0] = CellEmpty, ![p1] = CellEmpty],
                            !.assignment = [s.assignment EXCEPT ![var_index] = value]]]
      ELSE [ok |-> FALSE, s |-> s]

\* unassign as it would be with the column counters forgotten.
unassign_rows_only(s, value, var_index) ==
  LET p0 == Pole(var_index, 0)
      p1 == Pole(var_index, 1)
      b == [s.board EXCEPT ![p0] = CellUnassigned, ![p1] = CellUnassigned]
      a == [s.assignment EXCEPT ![var_index] = ValueUnassigned]
  IN  IF value = Pole1PositivePole2Negative
      THEN [s EXCEPT !.board = b, !.assignment = a,
                     !.rp = Dec(s.rp, p0[1]), !.rn = Dec(s.rn, p1[1])]
      ELSE IF value = Pole2PositivePole1Negative
      THEN [s EXCEPT !.board = b, !.assignment = a,
                     !.rn = Dec(s.rn, p0[1]), !.rp = Dec(s.rp, p1[1])]
      ELSE [s EXCEPT !.board = b, !.assignment = a]

\* unassign as it would be if it left the domino's entry of the assignment vector.
unassign_keeps_assignment(s, value, var_index) ==
  LET p0 == Pole(var_index, 0)
      p1 == Pole(var_index, 1)
      b == [s.board EXCEPT ![p0] = CellUnassigned, ![p1] = CellUnassigned]
  IN  IF value = Pole1PositivePole2Negative
      THEN [s EXCEPT !.board = b,
                     !.rp = Dec(s.rp, p0[1]), !.cp = Dec(s.cp, p0[2]),
                     !.rn = Dec(s.rn, p1[1]), !.cn = Dec(s.cn, p1[2])]
      ELSE IF value = Pole2PositivePole1Negative
      THEN [s EXCEPT !.board = b,
                     !.rn = Dec(s.rn, p0[1]), !.cn = Dec(s.cn, p0[2]),
                     !.rp = Dec(s.rp, p1[1]), !.cp = Dec(s.cp, p1[2])]
      ELSE [s EXCEPT !.board = b]

\* CSP::unassign: the store after the call.
unassign(s, value, var_index) ==
  LET p0 == Pole(var_index, 0)
      p1 == Pole(var_index, 1)
      b == [s.board EXCEPT ![p0] = CellUnassigned, ![p1] = CellUnassigned]
      a == [s.assignment EXCEPT ![var_index] = ValueUnassigned]
  IN  IF value = Pole1PositivePole2Negative
      THEN [board |-> b,
            rp |-> Dec(s.rp, p0[1]), cp |-> Dec(s.cp, p0[2]),
            rn |-> Dec(s.rn, p1[1]), cn |-> Dec(s.cn, p1[2]),
            assignment |-> a]
      ELSE IF value = Pole2PositivePole1Negative
      THEN [board |-> b,
            rn |-> Dec(s.rn, p0[1]), cn |-> Dec(s.cn, p0[2]),
            rp |-> Dec(s.rp, p1[1]), cp |-> Dec(s.cp, p1[2]),
            assignment |-> a]
      ELSE [s EXCEPT !.board = b, !.assignment = a]

(* ------------------------ consistency checker ------------------------- *)
\* is_complete as it would be if an empty assignment did not count as complete.
is_complete_nonempty(a) == a # <<>> /\ \A i \in 1..Len(a) : a[i] # ValueUnassigned

is_complete(a) == \A i \in 1..Len(a) : a[i] # ValueUnassigned

\* The up-to-four grid neighbours the check looks at: down, up, right, left.
GridNeighbours(cell) ==
  {n \in {<<cell[1] + 1, cell[2]>>, <<cell[1] - 1, cell[2]>>,
          <<cell[1], cell[2] + 1>>, <<cell[1], cell[2] - 1>>} :
     n[1] \in 1..row_size /\ n[2] \in 1..col_size}

\* The sign check as it would be if it compared against Negative only.
check_neighbors_negative_only(s, cell) ==
  LET value == s.board[cell]
  IN  IF value = Negative
      THEN \A n \in GridNeighbours(cell) : s.board[n] # value
      ELSE TRUE

check_neighbors_pole_sign_constraint(s, cell) ==
  LET value == s.board[cell]
  IN  IF value \in {Positive, Negative}
      THEN \A n \in GridNeighbours(cell) : s.board[n] # value
      ELSE TRUE

RowAllAssigned(s, r) == \A j \in 1..col_size : s.board[<<r, j>>] # CellUnassigned
ColAllAssigned(s, c) == \A i \in 1..row_size : s.board[<<i, c>>] # CellUnassigned

RowEqual(s, r) == s.rp[r] = row_pos_poles[r] /\ s.rn[r] = row_neg_poles[r]
ColEqual(s, c) == s.cp[c] = col_pos_poles[c] /\ s.cn[c] = col_neg_poles[c]
RowWithin(s, r) == s.rp[r] <= row_pos_poles[r] /\ s.rn[r] <= row_neg_poles[r]
\* The column bound as it would be with strict comparisons.
ColStrictlyWithin(s, c) == s.cp[c] < col_pos_poles[c] /\ s.cn[c] < col_neg_poles[c]
ColWithin(s, c) == s.cp[c] <= col_pos_poles[c] /\ s.cn[c] <= col_neg_poles[c]

\* In the vertical branch "poles_col_all_assigned" starts false and is only ever
\* and-ed, so the column's equality test is never made there.
VerticalColAllAssigned(s, c) == FALSE /\ ColAllAssigned(s, c)

is_consistent(s, var_index) ==
  LET p0 == Pole(var_index, 0)
      p1 == Pole(var_index, 1)
  IN  /\ check_neighbors_pole_sign_constraint(s, p0)
      /\ check_neighbors_pole_sign_constraint(s, p1)
      /\ IF p0[1] = p1[1]
         THEN /\ RowAllAssigned(s, p0[1]) => RowEqual(s, p0[1])
              /\ RowWithin(s, p0[1])
              /\ ColAllAssigned(s, p0[2]) => ColEqual(s, p0[2])
              /\ ColAllAssigned(s, p1[2]) => ColEqual(s, p1[2])
              /\ ColWithin(s, p0[2])
              /\ ColWithin(s, p1[2])
         ELSE IF p0[2] = p1[2]
         THEN /\ RowAllAssigned(s, p0[1]) => RowEqual(s, p0[1])
              /\ RowAllAssigned(s, p1[1]) => RowEqual(s, p1[1])
              /\ RowWithin(s, p0[1])
              /\ RowWithin(s, p1[1])
              /\ VerticalColAllAssigned(s, p0[2]) => ColEqual(s, p0[2])
              /\ ColWithin(s, p0[2])
         ELSE TRUE

(* --------------------------- arc generator ---------------------------- *)
\* CSP::get_neighboring_cells, in the order the cells are pushed.
get_neighboring_cells(cell, same_variable_cell) ==
  LET down == IF cell[1] + 1 <= row_size /\ cell[1] + 1 # same_variable_cell[1]
                 /\ cell[2] # same_variable_cell[2]
              THEN <<(<<cell[1] + 1, cell[2]>>)>> ELSE <<>>
      up == IF cell[1] - 1 >= 1 /\ cell[1] - 1 # same_variable_cell[1]
               /\ cell[2] # same_variable_cell[2]
            THEN <<(<<cell[1] - 1, cell[2]>>)>> ELSE <<>>
      right == IF cell[2] + 1 <= col_size /\ cell[1] # same_variable_cell[1]
                  /\ cell[2] + 1 # same_variable_cell[2]
               THEN <<(<<cell[1], cell[2] + 1>>)>> ELSE <<>>
      left == IF cell[2] - 1 >= 1 /\ cell[1] # same_variable_cell[1]
                 /\ cell[2] - 1 # same_variable_cell[2]
              THEN <<(<<cell[1], cell[2] - 1>>)>> ELSE <<>>
  IN  down \o up \o right \o left

\* CSP::get_limiting_cells: the cells of the column, then the cells of the row.
get_limiting_cells(cell, same_variable_cell) ==
  LET col_cells == [i \in 1..row_size |-> <<i, cell[2]>>]
      row_cells == [j \in 1..col_size |-> <<cell[1], j>>]
      InCol(c) == c[1] # cell[1] /\ c[1] # same_variable_cell[1]
                  /\ cell[2] # same_variable_cell[2]
      InRow(c) == c[2] # cell[2] /\ cell[1] # same_variable_cell[1]
                  /\ c[2] # same_variable_cell[2]
  IN  SelectSeq(col_cells, InCol) \o SelectSeq(row_cells, InRow)

get_pole_number(var_index, cell) == IF cell = Pole(var_index, 0) THEN 0 ELSE 1

\* The arcs one pole contributes for one list of cells.
ArcsToward(cells, kind, var_index, pole_number, a, except_neighbor) ==
  LET Kept(c) == LET neighbor_index == board_variable_association[c]
                 IN  ~(neighbor_index = var_index
                       \/ a[neighbor_index] # ValueUnassigned
                       \/ neighbor_index = except_neighbor)
      kept == SelectSeq(cells, Kept)
  IN  [k \in 1..Len(kept) |->
         [xi |-> board_variable_association[kept[k]],
          xj |-> var_index,
          constraint |-> kind,
          xi_pole |-> get_pole_number(board_variable_association[kept[k]], kept[k]),
          xj_pole |-> pole_number]]

PoleArcs(var_index, pole_number, a, except_neighbor) ==
  LET pole == Pole(var_index, pole_number)
      other_pole == Pole(var_index, (pole_number + 1) % 2)
  IN  ArcsToward(get_neighboring_cells(pole, other_pole), SignBased,
                 var_index, pole_number, a, except_neighbor)
      \o ArcsToward(get_limiting_cells(pole, other_pole), LimitBased,
                    var_index, pole_number, a, except_neighbor)

\* CSP::generate_arc_constraints: the arcs it pushes to the back of the queue.
generate_arc_constraints(var_index, a, except_neighbor) ==
  PoleArcs(var_index, 0, a, except_neighbor) \o PoleArcs(var_index, 1, a, except_neighbor)

(* ------------------------------ revise -------------------------------- *)
NoValue == "NoValue"

Contains(seq, x) == \E k \in 1..Len(seq) : seq[k] = x
Position(seq, x) == CHOOSE k \in 1..Len(seq) : seq[k] = x /\ \A m \in 1..(k - 1) : seq[m] # x

\* Vec::swap_remove: the last element takes the removed one's place.
swap_remove(seq, pos) ==
  [k \in 1..(Len(seq) - 1) |-> IF k = pos THEN seq[Len(seq)] ELSE seq[k]]

\* CSP::remove_value_from_domain: the domain after the call.
remove_value_from_domain(value, domain) ==
  IF Contains(domain, value) THEN swap_remove(domain, Position(domain, value)) ELSE domain

get_neighbor_pole_based_inconsistent_value(xi_value, xi_pole_index, xj_pole_index) ==
  IF xi_value = Pole1PositivePole2Negative
  THEN IF xi_pole_index = 0 /\ xj_pole_index = 0 THEN Pole1PositivePole2Negative
       ELSE IF xi_pole_index = 0 /\ xj_pole_index = 1 THEN Pole2PositivePole1Negative
       ELSE IF xi_pole_index = 1 /\ xj_pole_index = 0 THEN Pole2PositivePole1Negative
       ELSE IF xi_pole_index = 1 /\ xj_pole_index = 1 THEN Pole1PositivePole2Negative
       ELSE NoValue
  ELSE IF xi_value = Pole2PositivePole1Negative
  THEN IF xi_pole_index = 0 /\ xj_pole_index = 0 THEN Pole2PositivePole1Negative
       ELSE IF xi_pole_index = 0 /\ xj_pole_index = 1 THEN Pole1PositivePole2Negative
       ELSE IF xi_pole_index = 1 /\ xj_pole_index = 0 THEN Pole1PositivePole2Negative
       ELSE IF xi_pole_index = 1 /\ xj_pole_index = 1 THEN Pole2PositivePole1Negative
       ELSE NoValue
  ELSE NoValue

\* The four-way match both branches (row and column) of the limit rule share:
\* pos_sum and neg_sum are the line's counters without the two constrained poles,
\* others the unresolved dominoes of the line besides xi and xj.
LimitMatch(pos_sum, neg_sum, pos_limit, neg_limit, others, xi_value, xi_pole_index, xj_pole_index) ==
  IF pos_sum = pos_limit - 1
  THEN IF xi_value = Pole1PositivePole2Negative
       THEN IF xi_pole_index = 0 /\ xj_pole_index = 0 THEN Pole1PositivePole2Negative
            ELSE IF xi_pole_index = 0 /\ xj_pole_index = 1 THEN Pole2PositivePole1Negative
            ELSE NoValue
       ELSE IF xi_value = Pole2PositivePole1Negative
       THEN IF xi_pole_index = 1 /\ xj_pole_index = 0 THEN Pole1PositivePole2Negative
            ELSE IF xi_pole_index = 1 /\ xj_pole_index = 1 THEN Pole2PositivePole1Negative
            ELSE NoValue
       ELSE NoValue
  ELSE IF neg_sum = neg_limit - 1
  THEN IF xi_value = Pole1PositivePole2Negative
       THEN IF xi_pole_index = 1 /\ xj_pole_index = 0 THEN Pole2PositivePole1Negative
            ELSE IF xi_pole_index = 1 /\ xj_pole_index = 1 THEN Pole1PositivePole2Negative
            ELSE NoValue
       ELSE IF xi_value = Pole2PositivePole1Negative
       THEN IF xi_pole_index = 0 /\ xj_pole_index = 0 THEN Pole2PositivePole1Negative
            ELSE IF xi_pole_index = 0 /\ xj_pole_index = 1 THEN Pole1PositivePole2Negative
            ELSE NoValue
       ELSE NoValue
  ELSE IF pos_sum = pos_limit - 2
  THEN IF others = {}
       THEN IF xi_value = Pole1PositivePole2Negative
            THEN IF xi_pole_index = 0 THEN ValueEmpty ELSE NoValue
            ELSE IF xi_value = Pole2PositivePole1Negative
            THEN IF xi_pole_index = 1 THEN ValueEmpty ELSE NoValue
            ELSE NoValue
       ELSE NoValue
  ELSE IF neg_sum = neg_limit - 2
  THEN IF others = {}
       THEN IF xi_value = Pole1PositivePole2Negative
            THEN IF xi_pole_index = 1 THEN ValueEmpty ELSE NoValue
            ELSE IF xi_value = Pole2PositivePole1Negative
            THEN IF xi_pole_index = 0 THEN ValueEmpty ELSE NoValue
            ELSE NoValue
       ELSE NoValue
  ELSE NoValue

Minus(b) == IF b THEN 1 ELSE 0

get_neighbor_limit_based_inconsistent_value(s, xi_index, xj_index, xi_value, xi_pole_index, xj_pole_index) ==
  LET xi_pole == Pole(xi_index, xi_pole_index)
      xj_pole == Pole(xj_index, xj_pole_index)
      pos_off == Minus(s.board[xi_pole] = Positive) + Minus(s.board[xj_pole] = Positive)
      neg_off == Minus(s.board[xi_pole] = Negative) + Minus(s.board[xj_pole] = Negative)
      Other(c) == LET curr_var_index == board_variable_association[c]
                  IN  curr_var_index # xi_index /\ curr_var_index # xj_index
                      /\ s.assignment[curr_var_index] = ValueUnassigned
      unassigned_vars_in_row ==
        {board_variable_association[<<xi_pole[1], j>>] :
           j \in {j \in 1..col_size : Other(<<xi_pole[1], j>>)}}
      unassigned_vars_in_col ==
        {board_variable_association[<<i, xi_pole[2]>>] :
           i \in {i \in 1..row_size : Other(<<i, xi_pole[2]>>)}}
  IN  IF xi_pole[1] = xj_pole[1]
      THEN LimitMatch(s.rp[xi_pole[1]] - pos_off, s.rn[xi_pole[1]] - neg_off,
                      row_pos_poles[xi_pole[1]], row_neg_poles[xi_pole[1]],
                      unassigned_vars_in_row, xi_value, xi_pole_index, xj_pole_index)
      ELSE IF xi_pole[2] = xj_pole[2]
      THEN LimitMatch(s.cp[xi_pole[2]] - pos_off, s.cn[xi_pole[2]] - neg_off,
                      col_pos_poles[xi_pole[2]], col_neg_poles[xi_pole[2]],
                      unassigned_vars_in_col, xi_value, xi_pole_index, xj_pole_index)
      ELSE NoValue

InconsistentValue(s, arc, xi_value) ==
  IF arc.constraint = SignBased
  THEN get_neighbor_pole_based_inconsistent_value(xi_value, arc.xi_pole, arc.xj_pole)
  ELSE get_neighbor_limit_based_inconsistent_value(s, arc.xi, arc.xj, xi_value,
                                                   arc.xi_pole, arc.xj_pole)

\* One pass of the loop of revise, for the value xi_value of xi's domain and the
\* value the rule forbids xj: acc = [to_be_deleted, constraint_count], and
\* constraint_count is declared outside the loop and never reset.
ReviseValue(acc, xi_value, value, xj_value, xj_domain) ==
  LET hit == value # NoValue /\ xj_value # ValueUnassigned /\ xj_value = value
      counted == value # NoValue /\ ~hit /\ Contains(xj_domain, value)
      deleted1 == IF hit THEN Append(acc.to_be_deleted, xi_value)
                  ELSE acc.to_be_deleted
      count == IF counted THEN acc.constraint_count + 1 ELSE acc.constraint_count
  IN  [to_be_deleted |-> IF count = Len(xj_domain) THEN Append(deleted1, xi_value)
                         ELSE deleted1,
       constraint_count |-> count]

RECURSIVE ReviseLoop(_, _, _, _, _)
ReviseLoop(k, acc, s, arc, domains) ==
  IF k > Len(domains[arc.xi]) THEN acc
  ELSE ReviseLoop(k + 1,
                  ReviseValue(acc, domains[arc.xi][k],
                              InconsistentValue(s, arc, domains[arc.xi][k]),
                              s.assignment[arc.xj], domains[arc.xj]),
                  s, arc, domains)

RECURSIVE RemoveAll(_, _, _)
RemoveAll(k, to_be_deleted, domain) ==
  IF k > Len(to_be_deleted) THEN domain
  ELSE RemoveAll(k + 1, to_be_deleted, remove_value_from_domain(to_be_deleted[k], domain))

\* A variant of the end of revise without the test for an emptied domain.
ReviseResultUntested(inferred, xi, revised) ==
  [feasible |-> TRUE, revised |-> revised, domains |-> inferred]

\* The end of revise: the deletions are applied, an emptied domain is infeasible.
ReviseResult(inferred, xi, revised) ==
  IF Len(inferred[xi]) = 0
  THEN [feasible |-> FALSE, revised |-> FALSE, domains |-> inferred]
  ELSE [feasible |-> TRUE, revised |-> revised, domains |-> inferred]

ReviseDelete(domains, xi, to_be_deleted) ==
  ReviseResult([domains EXCEPT ![xi] = RemoveAll(1, to_be_deleted, @)], xi,
               to_be_deleted # <<>>)

\* CSP::revise: [feasible, revised, domains].
revise(arc, domains, s) ==
  IF arc.xi = arc.xj THEN [feasible |-> FALSE, revised |-> FALSE, domains |-> domains]
  ELSE ReviseDelete(domains, arc.xi,
                    (IF s.assignment[arc.xi] = ValueUnassigned
                     THEN ReviseLoop(1, [to_be_deleted |-> <<>>, constraint_count |-> 0],
                                     s, arc, domains)
                     ELSE [to_be_deleted |-> <<>>, constraint_count |-> 0]).to_be_deleted)

(* ---------------------------- propagators ----------------------------- *)
RECURSIVE maintaining_arc_consistency(_, _, _)

\* A variant of forward checking that appends arcs to the queue after a
\* revision, as maintaining_arc_consistency does.
forward_checking_appending(domains, s, arc_queue) ==
  maintaining_arc_consistency(domains, s, arc_queue)

\* CSP::forward_checking: [feasible, domains].
RECURSIVE forward_checking(_, _, _)
FcStep(r, s, arc_queue) ==
  IF ~r.feasible THEN [feasible |-> FALSE, domains |-> <<>>]
  ELSE forward_checking(r.domains, s, Tail(arc_queue))

forward_checking(domains, s, arc_queue) ==
  IF arc_queue = <<>> THEN [feasible |-> TRUE, domains |-> domains]
  ELSE FcStep(revise(Head(arc_queue), domains, s), s, arc_queue)

\* CSP::maintaining_arc_consistency: [feasible, domains].
MacStep(r, s, arc_queue) ==
  IF ~r.feasible THEN [feasible |-> FALSE, domains |-> <<>>]
  ELSE maintaining_arc_consistency(
         r.domains, s,
         IF r.revised
         THEN Tail(arc_queue) \o generate_arc_constraints(
                Head(arc_queue).xi, s.assignment, Head(arc_queue).xj)
         ELSE Tail(arc_queue))

maintaining_arc_consistency(domains, s, arc_queue) ==
  IF arc_queue = <<>> THEN [feasible |-> TRUE, domains |-> domains]
  ELSE MacStep(revise(Head(arc_queue), domains, s), s, arc_queue)

\* CSP::inference: [feasible, domains].
inference(mode, var_index, domains, s) ==
  LET arc_queue == generate_arc_constraints(var_index, s.assignment, var_index)
  IN  IF mode = FC THEN forward_checking(domains, s, arc_queue)
      ELSE IF mode = MAC THEN maintaining_arc_consistency(domains, s, arc_queue)
      ELSE [feasible |-> FALSE, domains |-> domains]

(* ----------------------------- heuristics ----------------------------- *)
\* std::usize::MAX, the start value of mrv_value: above every domain length.
usize_MAX == 2147483647

\* A variant of the selection that keeps the last of the dominoes tied for the
\* smallest domain ("<=" in place of "<").
select_last_of_tied(domains, a) ==
  LET unassigned == {i \in 1..Len(a) : a[i] = ValueUnassigned}
  IN  IF unassigned = {} THEN 0
      ELSE CHOOSE i \in unassigned :
             \A m \in unassigned :
               \/ Len(domains[i]) < Len(domains[m])
               \/ (Len(domains[i]) = Len(domains[m]) /\ i >= m)

\* The loop of select_unassigned_variable from index i on: mrv_index at its end.
\* The strict "<" keeps the first of the dominoes tied for the smallest domain.
RECURSIVE SelectLoop(_, _, _, _, _)
SelectLoop(i, mrv_index, mrv_value, domains, a) ==
  IF i > Len(a) THEN mrv_index
  ELSE IF a[i] = ValueUnassigned /\ Len(domains[i]) < mrv_value
  THEN SelectLoop(i + 1, i, Len(domains[i]), domains, a)
  ELSE SelectLoop(i + 1, mrv_index, mrv_value, domains, a)

\* The test after the loop: Some(mrv_index) when that domino is unassigned, 0
\* for Option::None.  (With no domino at all the code would index an empty
\* vector; backtrack never calls the selection then, is_complete holds.)
SelectFound(mrv_index, a) ==
  IF mrv_index <= Len(a) /\ a[mrv_index] = ValueUnassigned THEN mrv_index ELSE 0

\* CSP::select_unassigned_variable: the index chosen, 0 for Option::None.
select_unassigned_variable(domains, a) ==
  SelectFound(SelectLoop(1, 1, usize_MAX, domains, a), a)

\* What one arc adds to the score of `value`.
ArcScore(arc, value, domains, s) ==
  LET xi_domain == domains[arc.xi]
      to_be_deleted == {k \in 1..Len(xi_domain) :
                          InconsistentValue(s, arc, xi_domain[k]) = value}
  IN  IF arc.xi = arc.xj \/ s.assignment[arc.xi] # ValueUnassigned THEN 0
      ELSE Cardinality(to_be_deleted)
           + (IF to_be_deleted # {} /\ Len(xi_domain) = 1 THEN 5 ELSE 0)

RECURSIVE SumScores(_, _, _, _)
SumScores(arc_queue, value, domains, s) ==
  IF arc_queue = <<>> THEN 0
  ELSE ArcScore(Head(arc_queue), value, domains, s)
       + SumScores(Tail(arc_queue), value, domains, s)

calculate_constraint_score(value, var_index, domains, s) ==
  SumScores(generate_arc_constraints(var_index, s.assignment, var_index),
            value, domains, s)

\* slice::sort_by is stable: a pair goes behind every pair whose score is not larger.
RECURSIVE InsertByScore(_, _)
InsertByScore(sorted, pair) ==
  IF sorted = <<>> THEN <<pair>>
  ELSE IF sorted[Len(sorted)][2] <= pair[2] THEN Append(sorted, pair)
  ELSE Append(InsertByScore(SubSeq(sorted, 1, Len(sorted) - 1), pair), sorted[Len(sorted)])

RECURSIVE SortByScore(_, _, _)
SortByScore(k, pairs, sorted) ==
  IF k > Len(pairs) THEN sorted
  ELSE SortByScore(k + 1, pairs, InsertByScore(sorted, pairs[k]))

\* The ordering with the least-constraining-value sort turned off: the domain
\* as it stands.
order_domain_values_unsorted(var_index, domains, s) == domains[var_index]

\* CSP::order_domain_values.
order_domain_values(var_index, domains, s) ==
  LET scored == [k \in 1..Len(domains[var_index]) |->
                   <<domains[var_index][k],
                     calculate_constraint_score(domains[var_index][k], var_index, domains, s)>>]
      ordered_domain_values == SortByScore(1, scored, <<>>)
  IN  [k \in 1..Len(ordered_domain_values) |-> ordered_domain_values[k][1]]

(* --------------------------- search driver ---------------------------- *)
InitialDomain ==
  [i \in 1..Len(variables) |->
     <<Pole1PositivePole2Negative, Pole2PositivePole1Negative, ValueEmpty>>]

\* A variant of the store's update that leaves the assignment vector as it was.
SetStoreNotAssignment(s) ==
  /\ board' = s.board
  /\ curr_row_pos_poles' = s.rp
  /\ curr_row_neg_poles' = s.rn
  /\ curr_col_pos_poles' = s.cp
  /\ curr_col_neg_poles' = s.cn
  /\ assignment' = assignment

SetStore(s) ==
  /\ board' = s.board
  /\ curr_row_pos_poles' = s.rp
  /\ curr_row_neg_poles' = s.rn
  /\ curr_col_pos_poles' = s.cp
  /\ curr_col_neg_poles' = s.cn
  /\ assignment' = s.assignment

Top == stack[Len(stack)]
\* A variant of the return in which the nested call worked on the caller's own
\* domains instead of a copy: the caller is left with the narrowed domains.
PopSharingDomains ==
  [SubSeq(stack, 1, Len(stack) - 1) EXCEPT ![Len(stack) - 1].domains = Top.domains]

Pop == SubSeq(stack, 1, Len(stack) - 1)
Advance == [stack EXCEPT ![Len(stack)].k = @ + 1]

\* CSP::solve: the initial assignment and domains, and the call of backtrack.
Solve ==
  /\ pc = "solve"
  /\ assignment' = [i \in 1..Len(variables) |-> ValueUnassigned]
  /\ call_domains' = InitialDomain
  /\ pc' = "backtrack"
  /\ UNCHANGED <<puzzle, store, inference_mode, stack, result, fc_result>>

\* backtrack entered with a complete assignment: Some(assignment.clone()), which
\* every caller on the stack hands up unchanged.
BacktrackComplete ==
  /\ pc = "backtrack"
  /\ is_complete(assignment)
  /\ result' = Some(assignment)
  /\ pc' = "done"
  /\ call_domains' = <<>>
  /\ UNCHANGED <<puzzle, store, inference_mode, assignment, stack, fc_result>>

\* backtrack entered with an incomplete assignment: the variable is selected and
\* its values ordered; the frame holds the loop's position.  The field "entry" is
\* a history field, read by no action: the state store as the call found it.
BacktrackSelect ==
  /\ pc = "backtrack"
  /\ ~is_complete(assignment)
  /\ LET var_index == select_unassigned_variable(call_domains, assignment)
     IN  stack' = Append(stack,
                    [domains |-> call_domains,
                     var_index |-> var_index,
                     values |-> IF var_index = 0 THEN <<>>
                                ELSE order_domain_values(var_index, call_domains, Store),
                     k |-> 1,
                     entry |-> Store])
  /\ pc' = "loop"
  /\ call_domains' = <<>>
  /\ UNCHANGED <<puzzle, store, inference_mode, assignment, result, fc_result>>

InLoop == pc = "loop" /\ Top.k <= Len(Top.values)
Value == Top.values[Top.k]
Assigned == assign(Store, Value, Top.var_index)
Inferred == inference(inference_mode, Top.var_index, Top.domains, Assigned.s)

\* A variant of the refused value's step in which unassign is called for it.
TryAssignFailsUnassigns ==
  /\ InLoop
  /\ ~Assigned.ok
  /\ SetStore(unassign(Store, Value, Top.var_index))
  /\ stack' = Advance
  /\ UNCHANGED <<puzzle, inference_mode, call_domains, pc, result, fc_result>>

\* assign returns false: the next value is taken, nothing is unassigned.
TryAssignFails ==
  /\ InLoop
  /\ ~Assigned.ok
  /\ stack' = Advance
  /\ UNCHANGED <<puzzle, store, inference_mode, assignment, call_domains, pc, result,
                 fc_result>>

\* assign succeeds, is_consistent fails: unassign, next value.
TryInconsistent ==
  /\ InLoop
  /\ Assigned.ok
  /\ ~is_consistent(Assigned.s, Top.var_index)
  /\ SetStore(unassign(Assigned.s, Value, Top.var_index))
  /\ stack' = Advance
  /\ UNCHANGED <<puzzle, inference_mode, call_domains, pc, result, fc_result>>

\* consistent, but the propagation is infeasible: unassign, next value.
TryInfeasible ==
  /\ InLoop
  /\ Assigned.ok
  /\ is_consistent(Assigned.s, Top.var_index)
  /\ ~Inferred.feasible
  /\ SetStore(unassign(Assigned.s, Value, Top.var_index))
  /\ stack' = Advance
  /\ UNCHANGED <<puzzle, inference_mode, call_domains, pc, result, fc_result>>

\* The call backtrack(assignment, inferred_domains) of a feasible propagation.
Recurse(inferred) == inferred.feasible /\ call_domains' = inferred.domains

\* consistent and feasible: the recursive call with the inferred domains.
TryRecurse ==
  /\ InLoop
  /\ Assigned.ok
  /\ is_consistent(Assigned.s, Top.var_index)
  /\ Recurse(Inferred)
  /\ SetStore(Assigned.s)
  /\ pc' = "backtrack"
  /\ UNCHANGED <<puzzle, inference_mode, stack, result, fc_result>>

\* The loop of a nested call is exhausted: it returns None, and its caller
\* unassigns the value it had tried and goes on with the next one.
ReturnNone ==
  /\ pc = "loop"
  /\ Top.k > Len(Top.values)
  /\ Len(stack) > 1
  /\ LET caller == stack[Len(stack) - 1]
     IN  /\ SetStore(unassign(Store, caller.values[caller.k], caller.var_index))
         /\ stack' = [Pop EXCEPT ![Len(stack) - 1].k = @ + 1]
  /\ UNCHANGED <<puzzle, inference_mode, call_domains, pc, result, fc_result>>

\* The loop of the call made by solve is exhausted: solve returns None.
SolveNone ==
  /\ pc = "loop"
  /\ Top.k > Len(Top.values)
  /\ Len(stack) = 1
  /\ stack' = <<>>
  /\ result' = None
  /\ pc' = "done"
  /\ UNCHANGED <<puzzle, store, inference_mode, assignment, call_domains, fc_result>>

ZeroRow == [i \in 1..row_size |-> 0]
ZeroCol == [j \in 1..col_size |-> 0]

\* The same puzzle is built again with InferenceMode::MAC and solved: the caller
\* keeps the result of the FC run.
SolveAgain ==
  /\ pc = "done"
  /\ inference_mode = FC
  /\ fc_result' = result
  /\ inference_mode' = MAC
  /\ board' = [c \in Cells(row_size, col_size) |-> CellUnassigned]
  /\ curr_row_pos_poles' = ZeroRow
  /\ curr_row_neg_poles' = ZeroRow
  /\ curr_col_pos_poles' = ZeroCol
  /\ curr_col_neg_poles' = ZeroCol
  /\ assignment' = <<>>
  /\ stack' = <<>>
  /\ call_domains' = <<>>
  /\ result' = None
  /\ pc' = "solve"
  /\ UNCHANGED puzzle

Next ==
  \/ Solve
  \/ BacktrackComplete
  \/ BacktrackSelect
  \/ TryAssignFails
  \/ TryInconsistent
  \/ TryInfeasible
  \/ TryRecurse
  \/ ReturnNone
  \/ SolveNone
  \/ SolveAgain

(* --------------------------- initial states --------------------------- *)
Sum(f) == LET RECURSIVE S(_)
              S(k) == IF k = 0 THEN 0 ELSE f[k] + S(k - 1)
          IN  S(Len(f))

\* The state CSP::new leaves for the given puzzle, before solve is called.
InitOf(R, C, raw, rp, rn, cp, cn) ==
  LET built == New(R, C, raw)
  IN  /\ row_size = R
      /\ col_size = C
      /\ row_pos_poles = rp
      /\ row_neg_poles = rn
      /\ col_pos_poles = cp
      /\ col_neg_poles = cn
      /\ board = [c \in Cells(R, C) |-> CellUnassigned]
      /\ board_variable_association = built.assoc
      /\ variables = built.variables
      /\ inference_mode = FC
      /\ curr_row_pos_poles = [i \in 1..R |-> 0]
      /\ curr_row_neg_poles = [i \in 1..R |-> 0]
      /\ curr_col_pos_poles = [j \in 1..C |-> 0]
      /\ curr_col_neg_poles = [j \in 1..C |-> 0]
      /\ assignment = <<>>
      /\ stack = <<>>
      /\ call_domains = <<>>
      /\ pc = "solve"
      /\ result = None
      /\ fc_result = None

Orientations == {Pole1PositivePole2Negative, Pole2PositivePole1Negative, ValueEmpty}

\* The mark an orientation gives to pole 0 or pole 1 of a domino.
MarkOf(value, pole_number) ==
  IF value = ValueEmpty THEN CellEmpty
  ELSE IF (value = Pole1PositivePole2Negative) = (pole_number = 0) THEN Positive
  ELSE Negative

\* The board on which every domino of vs carries the marks of its orientation in a
\* (the last domino wins on a cell two dominoes share).
MarkedBoard(R, C, vs, a) ==
  [c \in Cells(R, C) |->
     LET owners == {d \in 1..Len(vs) : c \in {vs[d].poles[1], vs[d].poles[2]}}
         last == CHOOSE d \in owners : \A e \in owners : e <= d
     IN  IF owners = {} THEN CellUnassigned
         ELSE MarkOf(a[last], IF c = vs[last].poles[1] THEN 0 ELSE 1)]

CountRow(b, r, C, mark) == Cardinality({j \in 1..C : b[<<r, j>>] = mark})
CountCol(b, c, R, mark) == Cardinality({i \in 1..R : b[<<i, c>>] = mark})

\* Every grid up to MaxRows x MaxCols and every marker grid over 0..MaxMarker,
\* with every target vector over 0..MaxTarget.
InitBounded ==
  \E R \in 1..MaxRows, C \in 1..MaxCols :
    \E raw \in [Cells(R, C) -> 0..MaxMarker] :
      \E rp \in [1..R -> 0..MaxTarget], rn \in [1..R -> 0..MaxTarget],
         cp \in [1..C -> 0..MaxTarget], cn \in [1..C -> 0..MaxTarget] :
        InitOf(R, C, raw, rp, rn, cp, cn)

\* The grids up to MaxRows x MaxFilledCols, with the targets read off a filled
\* board: the counts of some marking of the dominoes, whether or not that marking
\* obeys the adjacency rule.
InitFilled ==
  \E R \in 1..MaxRows, C \in 1..MaxFilledCols :
    \E raw \in [Cells(R, C) -> 0..MaxMarker] :
      LET vs == New(R, C, raw).variables
      IN  \E a \in [1..Len(vs) -> Orientations] :
            LET b == MarkedBoard(R, C, vs, a)
            IN  InitOf(R, C, raw,
                       [r \in 1..R |-> CountRow(b, r, C, Positive)],
                       [r \in 1..R |-> CountRow(b, r, C, Negative)],
                       [c \in 1..C |-> CountCol(b, c, R, Positive)],
                       [c \in 1..C |-> CountCol(b, c, R, Negative)])

\* One WideRows x WideCols grid with three disjoint dominoes (one horizontal in
\* the first row, two vertical side by side below it), with every target vector
\* over 0..MaxWideTarget whose entries add up to MaxTargetSum at most.
WideRaw ==
  [c \in Cells(WideRows, WideCols) |-> IF c \in {<<2, 1>>, <<2, 2>>} THEN 1 ELSE 0]

\* A second wide layout: a vertical domino in the first column and three
\* horizontal ones, with the last cell of the grid left over.
WideStackedRaw ==
  [c \in Cells(WideRows, WideCols) |-> IF c = <<1, 1>> THEN 1 ELSE 0]

WideRaws == {WideRaw, WideStackedRaw}

InitWide ==
  \E raw \in WideRaws, rp \in [1..WideRows -> 0..MaxWideTarget] :
    /\ Sum(rp) <= MaxTargetSum
    /\ \E rn \in [1..WideRows -> 0..MaxWideTarget] :
         /\ Sum(rp) + Sum(rn) <= MaxTargetSum
         /\ \E cp \in [1..WideCols -> 0..MaxWideTarget] :
              /\ Sum(rp) + Sum(rn) + Sum(cp) <= MaxTargetSum
              /\ \E cn \in [1..WideCols -> 0..MaxWideTarget] :
                   /\ Sum(rp) + Sum(rn) + Sum(cp) + Sum(cn) <= MaxTargetSum
                   /\ InitOf(WideRows, WideCols, raw, rp, rn, cp, cn)

Init == InitBounded \/ InitFilled \/ InitWide

Spec == Init /\ [][Next]_vars

(* ------------------------------ properties ---------------------------- *)
Returned == pc = "done" /\ result.some
ReturnedNone == pc = "done" /\ ~result.some

Adjacent(c, d) ==
  \/ c[1] = d[1] /\ c[2] - d[2] \in {-1, 1}
  \/ c[2] = d[2] /\ c[1] - d[1] \in {-1, 1}

Grid == Cells(row_size, col_size)
Dominoes == 1..Len(variables)
PolesOf(d) == {variables[d].poles[1], variables[d].poles[2]}
Polarities == {Pole1PositivePole2Negative, Pole2PositivePole1Negative}

\* C1: whenever solve returns an assignment, in either mode, no two grid-adjacent
\* cells of the board are both Positive and no two are both Negative.
NoAdjacentLikeSigns ==
  Returned =>
    \A c \in Grid, d \in Grid :
      Adjacent(c, d) /\ board[c] \in {Positive, Negative} => board[c] # board[d]

\* C1 witness: solve has returned a board on which two different dominoes are
\* both polarised and touch each other.
TwoPolarisedNeighboursReturned ==
  /\ Returned
  /\ \E d \in Dominoes, e \in Dominoes :
       /\ d # e
       /\ result.value[d] \in Polarities
       /\ result.value[e] \in Polarities
       /\ \E c \in PolesOf(d), n \in PolesOf(e) : Adjacent(c, n)

\* C2: whenever solve returns an assignment, every row and every column holds as
\* many Positive cells as its positive target and as many Negative cells as its
\* negative target.
ReturnedBoardMeetsTargets ==
  Returned =>
    /\ \A r \in 1..row_size :
         /\ CountRow(board, r, col_size, Positive) = row_pos_poles[r]
         /\ CountRow(board, r, col_size, Negative) = row_neg_poles[r]
    /\ \A c \in 1..col_size :
         /\ CountCol(board, c, row_size, Positive) = col_pos_poles[c]
         /\ CountCol(board, c, row_size, Negative) = col_neg_poles[c]

\* An orientation for every domino that marks every cell one way only, obeys the
\* adjacency rule and meets every row and column target.
IsSolution(a) ==
  LET b == MarkedBoard(row_size, col_size, variables, a)
  IN  /\ \A d \in Dominoes : \A p \in {0, 1} : b[Pole(d, p)] = MarkOf(a[d], p)
      /\ \A c \in Grid, d \in Grid :
           Adjacent(c, d) /\ b[c] \in {Positive, Negative} => b[c] # b[d]
      /\ \A r \in 1..row_size :
           /\ CountRow(b, r, col_size, Positive) = row_pos_poles[r]
           /\ CountRow(b, r, col_size, Negative) = row_neg_poles[r]
      /\ \A c \in 1..col_size :
           /\ CountCol(b, c, row_size, Positive) = col_pos_poles[c]
           /\ CountCol(b, c, row_size, Negative) = col_neg_poles[c]

Solvable == \E a \in [Dominoes -> Orientations] : IsSolution(a)

\* C3: solve returns None only when no solution exists; when some orientation of
\* every domino obeys the adjacency rule and meets every target, solve returns
\* Some, in FC mode and in MAC mode.
NoneOnlyWhenUnsolvable == ReturnedNone => ~Solvable

\* C4: the propagation strategy never changes solvability: the FC run returns
\* Some exactly when the MAC run of the same puzzle returns Some.
FcAndMacAgree ==
  (pc = "done" /\ inference_mode = MAC) => (fc_result.some <=> result.some)

\* The 2x2 instance with markers [[1,2],[2,2]]: one vertical domino in the first
\* column, the second column unused.
ExampleRaw == [c \in Cells(2, 2) |-> IF c = <<1, 1>> THEN 1 ELSE 2]

IsExample(cp, cn) ==
  /\ row_size = 2
  /\ col_size = 2
  /\ variables = New(2, 2, ExampleRaw).variables
  /\ board_variable_association = New(2, 2, ExampleRaw).assoc
  /\ row_pos_poles = <<1, 0>>
  /\ row_neg_poles = <<0, 1>>
  /\ col_pos_poles = cp
  /\ col_neg_poles = cn

\* C5 as stated: with column targets pos=[1,0], neg=[0,1] the 2x2 instance
\* solves to the one-element assignment [Pole1PositivePole2Negative].
ExampleSolvesForward ==
  (IsExample(<<1, 0>>, <<0, 1>>) /\ pc = "done")
    => result = Some(<<Pole1PositivePole2Negative>>)

\* C5 amended: with the column targets the domino's own column can meet,
\* pos=[1,0], neg=[1,0], the 2x2 instance solves to [Pole1PositivePole2Negative],
\* top cell Positive and bottom cell Negative, in both modes.
ExampleAmendedSolvesForward ==
  (IsExample(<<1, 0>>, <<1, 0>>) /\ pc = "done")
    => /\ result = Some(<<Pole1PositivePole2Negative>>)
       /\ board[<<1, 1>>] = Positive
       /\ board[<<2, 1>>] = Negative

\* C5 witness: the MAC run of the amended instance has returned.
ExampleAmendedSolved ==
  IsExample(<<1, 0>>, <<1, 0>>) /\ pc = "done" /\ inference_mode = MAC /\ result.some

\* The number of cells of row r that are a pole of some domino.
PolesInRow(r) ==
  Cardinality({j \in 1..col_size : \E d \in Dominoes : <<r, j>> \in PolesOf(d)})

\* C6: when some row's positive target is greater than the number of cells of
\* that row that belong to a domino, solve returns None, in both modes.
RowTargetBeyondPolesGivesNone ==
  (pc = "done" /\ \E r \in 1..row_size : row_pos_poles[r] > PolesInRow(r))
    => ~result.some

ZeroCounters ==
  /\ curr_row_pos_poles = ZeroRow
  /\ curr_row_neg_poles = ZeroRow
  /\ curr_col_pos_poles = ZeroCol
  /\ curr_col_neg_poles = ZeroCol

\* C7: a grid whose markers yield no domino solves to Some of the empty
\* assignment at once: no value loop is entered, nothing is assigned, and the
\* board and the counters stay untouched, whatever the markers and targets.
NoDominoesSolvesEmpty ==
  variables = <<>> =>
    /\ pc # "loop"
    /\ stack = <<>>
    /\ board = [c \in Grid |-> CellUnassigned]
    /\ ZeroCounters
    /\ assignment = <<>>
    /\ pc = "done" => result = Some(<<>>)

\* C7 witness: a grid without dominoes and with a non-zero target has been
\* solved in MAC mode, after the FC run returned Some as well.
NoDominoesSolved ==
  /\ variables = <<>>
  /\ pc = "done"
  /\ inference_mode = MAC
  /\ fc_result.some
  /\ \E r \in 1..row_size : row_pos_poles[r] > 0

BothCellsUnmarked(d) ==
  board[Pole(d, 0)] = CellUnassigned /\ board[Pole(d, 1)] = CellUnassigned

\* C8: for every domino whose two cells are Unmarked and every orientation,
\* assign followed at once by unassign leaves the board marks, the four running
\* counters and the assignment vector exactly as they were before the assign.
AssignUnassignRoundTrip ==
  Len(assignment) = Len(variables) =>
    \A d \in Dominoes :
      BothCellsUnmarked(d) =>
        \A value \in Orientations :
          /\ assign(Store, value, d).ok
          /\ unassign(assign(Store, value, d).s, value, d) = Store

\* C8 witness: in the middle of a search one domino is polarised and counted
\* while another one still has both cells Unmarked.
UnmarkedDominoBesidePolarised ==
  /\ pc = "loop"
  /\ \E d \in Dominoes, e \in Dominoes :
       /\ BothCellsUnmarked(d)
       /\ assignment[d] = ValueUnassigned
       /\ assignment[e] \in Polarities
       /\ curr_row_pos_poles # ZeroRow

\* C9: in every state reached during solve each running counter equals a scan
\* of the board: the Positive / Negative cells of the row or column, Empty and
\* Unmarked cells not counted.
CountersEqualScan ==
  /\ \A r \in 1..row_size :
       /\ curr_row_pos_poles[r] = CountRow(board, r, col_size, Positive)
       /\ curr_row_neg_poles[r] = CountRow(board, r, col_size, Negative)
  /\ \A c \in 1..col_size :
       /\ curr_col_pos_poles[c] = CountCol(board, c, row_size, Positive)
       /\ curr_col_neg_poles[c] = CountCol(board, c, row_size, Negative)

\* C10: in every state reached during solve a cell of a domino is Unmarked
\* exactly when the domino is Unresolved in the assignment vector, and a domino
\* assigned Empty has both poles marked Empty.
UnmarkedIffUnresolved ==
  Len(assignment) = Len(variables) =>
    \A d \in Dominoes : \A p \in {0, 1} :
      /\ board[Pole(d, p)] = CellUnassigned <=> assignment[d] = ValueUnassigned
      /\ assignment[d] = ValueEmpty => board[Pole(d, p)] = CellEmpty

\* A call of backtrack whose loop is exhausted: it is about to return None.
ReturnsNone == pc = "loop" /\ Top.k > Len(Top.values)

Unmarked == [c \in Grid |-> CellUnassigned]

\* C11: whenever a call of backtrack returns None, the board marks, the four
\* counters and the assignment vector are what they were when the call was
\* entered; after solve returns None the board is entirely Unmarked and all
\* counters are zero.
NoneRestoresEntryState ==
  /\ ReturnsNone => Store = Top.entry
  /\ ReturnedNone => board = Unmarked /\ ZeroCounters

\* C12: assign returns false whenever either of the domino's two cells is not
\* Unmarked, for each of the three orientations: here for every call of assign
\* that backtrack makes.
AssignRefusesMarkedCells ==
  (InLoop /\ ~BothCellsUnmarked(Top.var_index)) => ~Assigned.ok

Resolved(a) == Cardinality({i \in 1..Len(a) : a[i] # ValueUnassigned})

\* C13: at every entry to backtrack nested d levels below the call made by
\* solve exactly d dominoes are resolved in the assignment vector, and the
\* depth never exceeds the number of dominoes.
DepthEqualsResolved ==
  pc = "backtrack" =>
    /\ Resolved(assignment) = Len(stack)
    /\ Len(stack) <= Len(variables)

\* C13 witness: in MAC mode backtrack is entered at the greatest depth, every
\* domino resolved, after the outermost call has already given up a value.
DeepestEntryAfterRetry ==
  /\ pc = "backtrack"
  /\ inference_mode = MAC
  /\ Len(variables) >= 2
  /\ Len(stack) = Len(variables)
  /\ stack[1].k > 1

(* ----------------------- the calls of revise ------------------------- *)
\* backtrack is about to call inference for the value it has just assigned.
PendingInference ==
  InLoop /\ Assigned.ok /\ is_consistent(Assigned.s, Top.var_index)

\* The calls of revise that forward_checking makes, in order: the arc taken from
\* the front of the queue and the domains the call is handed.
RECURSIVE FcCalls(_, _, _)
FcCallsAfter(r, s, arc_queue) ==
  IF ~r.feasible THEN <<>> ELSE FcCalls(r.domains, s, Tail(arc_queue))

FcCalls(domains, s, arc_queue) ==
  IF arc_queue = <<>> THEN <<>>
  ELSE <<[arc |-> Head(arc_queue), domains |-> domains]>>
       \o FcCallsAfter(revise(Head(arc_queue), domains, s), s, arc_queue)

\* The calls of revise that maintaining_arc_consistency makes, in order.
RECURSIVE MacCalls(_, _, _)
MacCallsAfter(r, s, arc_queue) ==
  IF ~r.feasible THEN <<>>
  ELSE MacCalls(r.domains, s,
                IF r.revised
                THEN Tail(arc_queue) \o generate_arc_constraints(
                       Head(arc_queue).xi, s.assignment, Head(arc_queue).xj)
                ELSE Tail(arc_queue))

MacCalls(domains, s, arc_queue) ==
  IF arc_queue = <<>> THEN <<>>
  ELSE <<[arc |-> Head(arc_queue), domains |-> domains]>>
       \o MacCallsAfter(revise(Head(arc_queue), domains, s), s, arc_queue)

\* The calls of revise of the inference that is pending.
ReviseCallsOf(mode, var_index, domains, s) ==
  IF mode = FC
  THEN FcCalls(domains, s, generate_arc_constraints(var_index, s.assignment, var_index))
  ELSE MacCalls(domains, s, generate_arc_constraints(var_index, s.assignment, var_index))

ReviseCalls == ReviseCallsOf(inference_mode, Top.var_index, Top.domains, Assigned.s)

Range(seq) == {seq[k] : k \in 1..Len(seq)}

\* The domain of the arc's dependent domino after the call.
RevisedDomain(call, s) == revise(call.arc, call.domains, s).domains[call.arc.xi]

\* The orientation of the source that gives the source's pole the sign that
\* `value` gives the dependent's pole.
SameSignSource(value, xi_pole, xj_pole) ==
  CHOOSE w \in Polarities : MarkOf(w, xj_pole) = MarkOf(value, xi_pole)

\* What the adjacency rule removes: a polarity whose same-sign orientation of
\* the source is the source's assignment or the one value left in its domain.
SignRuleRemoves(value, arc, domains, s) ==
  /\ value \in Polarities
  /\ \/ s.assignment[arc.xj] = SameSignSource(value, arc.xi_pole, arc.xj_pole)
     \/ domains[arc.xj] = <<SameSignSource(value, arc.xi_pole, arc.xj_pole)>>

\* C14: on an adjacency arc revise removes a value from the dependent's domain
\* exactly when the source orientation giving the two poles the same sign is the
\* source's assignment or the only value left in the source's domain; every
\* other value, Empty included, is kept.
SignReviseRemovesExactly ==
  PendingInference =>
    \A k \in 1..Len(ReviseCalls) :
      ReviseCalls[k].arc.constraint = SignBased =>
        Range(RevisedDomain(ReviseCalls[k], Assigned.s))
          = {v \in Range(ReviseCalls[k].domains[ReviseCalls[k].arc.xi]) :
               ~SignRuleRemoves(v, ReviseCalls[k].arc, ReviseCalls[k].domains, Assigned.s)}

\* The rows and the columns holding a pole of domino d.
RowsOf(d) == {p[1] : p \in PolesOf(d)}
ColsOf(d) == {p[2] : p \in PolesOf(d)}

\* What the claim asks of a line in the store s: its counters equal the targets
\* when no cell of it is unmarked, and do not exceed them otherwise.
RowAccepted(s, r) ==
  IF \A j \in 1..col_size : s.board[<<r, j>>] # CellUnassigned
  THEN s.rp[r] = row_pos_poles[r] /\ s.rn[r] = row_neg_poles[r]
  ELSE s.rp[r] <= row_pos_poles[r] /\ s.rn[r] <= row_neg_poles[r]

ColAccepted(s, c) ==
  IF \A i \in 1..row_size : s.board[<<i, c>>] # CellUnassigned
  THEN s.cp[c] = col_pos_poles[c] /\ s.cn[c] = col_neg_poles[c]
  ELSE s.cp[c] <= col_pos_poles[c] /\ s.cn[c] <= col_neg_poles[c]

LinesAccepted(s, d) ==
  /\ \A r \in RowsOf(d) : RowAccepted(s, r)
  /\ \A c \in ColsOf(d) : ColAccepted(s, c)

\* C15: after a domino is assigned, is_consistent rejects when a row or column
\* of one of its poles is fully marked and a counter of the line differs from
\* its target, or when the line is not fully marked and a counter exceeds its
\* target; an under-count on a line with an unmarked cell is not rejected.
\* Horizontal and vertical dominoes, rows and columns alike.
ConsistentChecksEveryLine ==
  (InLoop /\ Assigned.ok) =>
    /\ ~LinesAccepted(Assigned.s, Top.var_index)
         => ~is_consistent(Assigned.s, Top.var_index)
    /\ (/\ LinesAccepted(Assigned.s, Top.var_index)
        /\ \A p \in PolesOf(Top.var_index) :
             check_neighbors_pole_sign_constraint(Assigned.s, p))
         => is_consistent(Assigned.s, Top.var_index)

(* --------------------- the arcs an inference builds -------------------- *)
\* The calls of generate_arc_constraints of the pending inference, as pairs
\* [var_index, except_neighbor]: the one inference makes for the domino just
\* assigned, and under MAC one per call of revise that removed a value.
Regenerates(call, s) ==
  /\ inference_mode = MAC
  /\ revise(call.arc, call.domains, s).feasible
  /\ revise(call.arc, call.domains, s).revised

GenerateCalls ==
  {[var_index |-> Top.var_index, except_neighbor |-> Top.var_index]}
  \cup {[var_index |-> ReviseCalls[k].arc.xi, except_neighbor |-> ReviseCalls[k].arc.xj] :
          k \in {k \in 1..Len(ReviseCalls) : Regenerates(ReviseCalls[k], Assigned.s)}}

\* generate_arc_constraints(var_index, a, except_neighbor) emits an arc of the
\* given kind from pole pole_number toward the cell.
EmitsToward(kind, var_index, pole_number, cell, a, except_neighbor) ==
  \E k \in 1..Len(generate_arc_constraints(var_index, a, except_neighbor)) :
    LET arc == generate_arc_constraints(var_index, a, except_neighbor)[k]
    IN  /\ arc.constraint = kind
        /\ arc.xj = var_index /\ arc.xj_pole = pole_number
        /\ arc.xi = board_variable_association[cell]
        /\ arc.xi_pole = get_pole_number(board_variable_association[cell], cell)

\* The filter the claims put on the cell an arc goes to: its owning domino is
\* another one, unresolved, and not the exempt neighbour.
Eligible(cell, var_index, a, except_neighbor) ==
  /\ board_variable_association[cell] # var_index
  /\ a[board_variable_association[cell]] = ValueUnassigned
  /\ board_variable_association[cell] # except_neighbor

\* C16: for each pole of the domino, generate_arc_constraints emits an adjacency
\* arc toward a cell if and only if the cell is next to the pole on the grid
\* (up, down, left or right) and its owning domino is another one, unresolved
\* and not the exempt neighbour.
SignArcsTowardEveryNeighbour ==
  PendingInference =>
    \A g \in GenerateCalls, pole_number \in {0, 1}, cell \in Grid :
      EmitsToward(SignBased, g.var_index, pole_number, cell,
                  Assigned.s.assignment, g.except_neighbor)
      <=> /\ Adjacent(Pole(g.var_index, pole_number), cell)
          /\ Eligible(cell, g.var_index, Assigned.s.assignment, g.except_neighbor)

\* The cells that share the row or the column of a cell, the cell itself left out.
SameLine(c, d) == c # d /\ (c[1] = d[1] \/ c[2] = d[2])

\* C17: for each pole of the domino, horizontal or vertical,
\* generate_arc_constraints emits a quota arc toward every other cell of the
\* pole's row and every other cell of the pole's column whose owning domino is
\* another one, unresolved and not the exempt neighbour.
LimitArcsTowardRowAndColumn ==
  PendingInference =>
    \A g \in GenerateCalls, pole_number \in {0, 1}, cell \in Grid :
      (/\ SameLine(Pole(g.var_index, pole_number), cell)
       /\ Eligible(cell, g.var_index, Assigned.s.assignment, g.except_neighbor))
      => EmitsToward(LimitBased, g.var_index, pole_number, cell,
                     Assigned.s.assignment, g.except_neighbor)

(* ----------------------------- quota arcs ------------------------------ *)
\* The cells an arc constrains, and the line they share (the row when they
\* share both, as the code tests the row first).
XiCell(arc) == Pole(arc.xi, arc.xi_pole)
XjCell(arc) == Pole(arc.xj, arc.xj_pole)
SharesRow(arc) == XiCell(arc)[1] = XjCell(arc)[1]
SharesLine(arc) == SharesRow(arc) \/ XiCell(arc)[2] = XjCell(arc)[2]

\* The line's running count of a sign without the two constrained poles, and
\* the line's target for the sign.
CountOutside(s, arc, mark) ==
  (IF SharesRow(arc)
   THEN (IF mark = Positive THEN s.rp ELSE s.rn)[XiCell(arc)[1]]
   ELSE (IF mark = Positive THEN s.cp ELSE s.cn)[XiCell(arc)[2]])
  - (IF s.board[XiCell(arc)] = mark THEN 1 ELSE 0)
  - (IF s.board[XjCell(arc)] = mark THEN 1 ELSE 0)

TargetOf(arc, mark) ==
  IF SharesRow(arc)
  THEN (IF mark = Positive THEN row_pos_poles ELSE row_neg_poles)[XiCell(arc)[1]]
  ELSE (IF mark = Positive THEN col_pos_poles ELSE col_neg_poles)[XiCell(arc)[2]]

\* The orientation that puts the mark on the pole.
OrientationGiving(mark, pole_number) ==
  CHOOSE w \in Polarities : MarkOf(w, pole_number) = mark

\* The value the quota rule forbids the source for a value of the dependent.
LimitValue(s, arc, xi_value) ==
  get_neighbor_limit_based_inconsistent_value(s, arc.xi, arc.xj, xi_value, arc.xi_pole, arc.xj_pole)

\* The line is one mark of the sign short outside the two poles, and for every
\* value of the dependent putting that sign on its pole the rule forbids the
\* source the orientation putting the sign on the source's pole.
OneShortRule(s, call, mark) ==
  CountOutside(s, call.arc, mark) = TargetOf(call.arc, mark) - 1 =>
    \A v \in Range(call.domains[call.arc.xi]) :
      MarkOf(v, call.arc.xi_pole) = mark =>
        LimitValue(s, call.arc, v) = OrientationGiving(mark, call.arc.xj_pole)

\* C18: on a quota arc whose two poles share a row or column, when the line's
\* positive count without the two poles is one below the positive target, a
\* dependent value making its pole Positive conflicts with the source
\* orientation making the source's pole Positive; and likewise for Negative.
OneShortForbidsSameSign ==
  PendingInference =>
    \A k \in 1..Len(ReviseCalls) :
      (ReviseCalls[k].arc.constraint = LimitBased /\ SharesLine(ReviseCalls[k].arc)) =>
        /\ OneShortRule(Assigned.s, ReviseCalls[k], Positive)
        /\ OneShortRule(Assigned.s, ReviseCalls[k], Negative)

\* The cells of the line an arc's two poles share.
LineCells(arc) ==
  IF SharesRow(arc) THEN {c \in Grid : c[1] = XiCell(arc)[1]}
  ELSE {c \in Grid : c[2] = XiCell(arc)[2]}

\* Another unresolved domino has a cell in the line.
OthersUnresolved(s, arc) ==
  \E d \in Dominoes \ {arc.xi, arc.xj} :
    s.assignment[d] = ValueUnassigned /\ PolesOf(d) \cap LineCells(arc) # {}

Signs == {Positive, Negative}
OneShort(s, arc, mark) == CountOutside(s, arc, mark) = TargetOf(arc, mark) - 1
QuotaMet(s, arc, mark) == CountOutside(s, arc, mark) = TargetOf(arc, mark)

\* (b): the quota of a sign is met outside the two poles and no other unresolved
\* domino is in the line: the values left to the dependent put no mark of that
\* sign on its pole.
MetQuotaRule(s, call) ==
  \A mark \in Signs :
    (QuotaMet(s, call.arc, mark) /\ ~OthersUnresolved(s, call.arc)) =>
      \A v \in Range(RevisedDomain(call, s)) : MarkOf(v, call.arc.xi_pole) # mark

\* (c): neither one short of a quota nor case (b): the dependent's domain is left
\* as it was.
NoDeductionRule(s, call) ==
  (/\ \A mark \in Signs : ~OneShort(s, call.arc, mark)
   /\ OthersUnresolved(s, call.arc) \/ \A mark \in Signs : ~QuotaMet(s, call.arc, mark))
    => RevisedDomain(call, s) = call.domains[call.arc.xi]

\* C19: on a quota arc, when the line's quota for a sign is already met by the
\* marks outside the two poles and no other unresolved domino has a cell in the
\* line, revise leaves the dependent only values adding no further mark of that
\* sign; when another unresolved domino remains in the line, or in any case that
\* is neither this one nor the one-short case, revise deduces nothing.
MetQuotaLeavesNoFurtherMark ==
  PendingInference =>
    \A k \in 1..Len(ReviseCalls) :
      (ReviseCalls[k].arc.constraint = LimitBased /\ SharesLine(ReviseCalls[k].arc)) =>
        /\ MetQuotaRule(Assigned.s, ReviseCalls[k])
        /\ NoDeductionRule(Assigned.s, ReviseCalls[k])

\* What C20 asks of one call of revise and its result r.
ContractHolds(call, r) ==
  /\ r.feasible <=> r.domains[call.arc.xi] # <<>>
  /\ r.feasible =>
       (r.revised <=> Range(call.domains[call.arc.xi]) \ Range(r.domains[call.arc.xi]) # {})
  /\ Len(r.domains) = Len(call.domains)
  /\ \A d \in Dominoes \ {call.arc.xi} : r.domains[d] = call.domains[d]

\* C20: revise returns feasible = false if and only if the dependent's domain is
\* empty after the revision; when feasible, it returns changed = true if and
\* only if at least one value was removed from the dependent's domain; and it
\* never modifies the domain of a domino other than the arc's dependent.
ReviseContract ==
  PendingInference =>
    \A k \in 1..Len(ReviseCalls) :
      ContractHolds(ReviseCalls[k], revise(ReviseCalls[k].arc, ReviseCalls[k].domains, Assigned.s))

\* C20 witness: a pending inference in which one call of revise removes a value
\* and stays feasible, and a later call empties its dependent's domain.
NarrowedThenEmptied ==
  /\ PendingInference
  /\ \E k \in 1..Len(ReviseCalls) :
       /\ revise(ReviseCalls[k].arc, ReviseCalls[k].domains, Assigned.s).feasible
       /\ revise(ReviseCalls[k].arc, ReviseCalls[k].domains, Assigned.s).revised
  /\ ~revise(ReviseCalls[Len(ReviseCalls)].arc, ReviseCalls[Len(ReviseCalls)].domains,
             Assigned.s).feasible

(* ------------------------------ heuristics ----------------------------- *)
\* The dominoes unresolved when the call that owns the frame was entered.
UnresolvedAt(frame) ==
  {i \in 1..Len(frame.entry.assignment) : frame.entry.assignment[i] = ValueUnassigned}

\* The frame's domino is an unresolved one with the fewest values, the lowest
\* index among those tied; none is selected only when none is unresolved.
SelectedByMrv(frame) ==
  IF UnresolvedAt(frame) = {} THEN frame.var_index = 0
  ELSE /\ frame.var_index \in UnresolvedAt(frame)
       /\ \A m \in UnresolvedAt(frame) :
            \/ Len(frame.domains[frame.var_index]) < Len(frame.domains[m])
            \/ /\ Len(frame.domains[frame.var_index]) = Len(frame.domains[m])
               /\ frame.var_index <= m

\* C21: select_unassigned_variable returns the unresolved domino whose domain
\* has the fewest values, the lowest index among those tied for the fewest; it
\* never returns a resolved domino and returns none only when every domino is
\* resolved.
SelectsFewestValuesLowestIndex ==
  \A n \in 1..Len(stack) : SelectedByMrv(stack[n])

\* C21 witness: a call selected a domino with fewer values than an unresolved
\* domino of lower index, below a first call that chose among tied dominoes.
SelectedSmallerDomainPastLowerIndex ==
  /\ stack # <<>>
  /\ \E m \in UnresolvedAt(stack[1]) \ {stack[1].var_index} :
       Len(stack[1].domains[m]) = Len(stack[1].domains[stack[1].var_index])
  /\ \E n \in 1..Len(stack) :
       \E m \in UnresolvedAt(stack[n]) :
         /\ m < stack[n].var_index
         /\ Len(stack[n].domains[m]) > Len(stack[n].domains[stack[n].var_index])

\* What assigning `value` to the arc's source would cost on one arc: the values
\* revise then removes from the dependent's domain, and 5 more when that empties
\* the domain.  after is the store with the value assigned.
EliminatedOn(arc, domains, after) ==
  Cardinality(Range(domains[arc.xi]) \ Range(revise(arc, domains, after).domains[arc.xi]))
  + (IF revise(arc, domains, after).feasible THEN 0 ELSE 5)

RECURSIVE EliminatedOver(_, _, _)
EliminatedOver(arc_queue, domains, after) ==
  IF arc_queue = <<>> THEN 0
  ELSE EliminatedOn(Head(arc_queue), domains, after)
       + EliminatedOver(Tail(arc_queue), domains, after)

\* The score the claim gives a value of the frame's domino.
ScoreOf(frame, value) ==
  EliminatedOver(generate_arc_constraints(frame.var_index, frame.entry.assignment,
                                          frame.var_index),
                 frame.domains, assign(frame.entry, value, frame.var_index).s)

\* The scores of the frame's values, in the order of the values.
ScoresOf(frame) == [i \in 1..Len(frame.values) |-> ScoreOf(frame, frame.values[i])]

\* The values of a frame are its domino's domain, each value once, in
\* non-decreasing order of score (the scores being those the code computes), and
\* the loop is at one of them or past the last.
OrderedWith(frame, scores) ==
  /\ Len(frame.values) = Len(frame.domains[frame.var_index])
  /\ Range(frame.values) = Range(frame.domains[frame.var_index])
  /\ Cardinality(Range(frame.values)) = Len(frame.values)
  /\ \A i \in 1..Len(frame.values) :
       scores[i] = calculate_constraint_score(frame.values[i], frame.var_index,
                                              frame.domains, frame.entry)
  /\ \A i \in 1..Len(frame.values), j \in 1..Len(frame.values) :
       i < j => scores[i] <= scores[j]
  /\ frame.k \in 1..(Len(frame.values) + 1)

OrderedByScore(frame) == OrderedWith(frame, ScoresOf(frame))

\* C22: order_domain_values returns a permutation of the selected domino's
\* domain sorted in non-decreasing order of constraint score, the score of a
\* value being the number of neighbour-domain values it would eliminate plus 5
\* for each arc on which an elimination would empty the neighbour's domain;
\* backtrack tries the values in that order.
ValuesTriedInScoreOrder ==
  pc = "loop" => OrderedByScore(Top)

\* C22 witness: a frame whose values come in another order than the domain
\* holds them, one of them with the 5 of an emptied neighbour domain in its score.
SortMovedValueEmptyingNeighbour ==
  /\ pc = "loop" /\ Top.var_index # 0
  /\ Top.values # Top.domains[Top.var_index]
  /\ \E i \in 1..Len(Top.values) : ScoreOf(Top, Top.values[i]) >= 6
  /\ ScoreOf(Top, Top.values[1]) < ScoreOf(Top, Top.values[Len(Top.values)])

(* --------------------------- forward checking -------------------------- *)
\* The arcs inference generates for the domino just assigned, and the dominoes
\* they make its direct neighbours.
GeneratedArcs ==
  generate_arc_constraints(Top.var_index, Assigned.s.assignment, Top.var_index)

NeighboursBy(arcs) == {arcs[k].xi : k \in 1..Len(arcs)}

\* The domains after revising the arcs one after the other, each arc once.
RECURSIVE RevisedInTurn(_, _, _)
RevisedInTurn(arcs, domains, s) ==
  IF arcs = <<>> THEN domains
  ELSE RevisedInTurn(Tail(arcs), revise(Head(arcs), domains, s).domains, s)

\* What C23 asks of a run of forward checking: calls are its calls of revise, r
\* its result, once the domains of the single pass over the arcs.
SinglePass(domains, arcs, calls, r, once) ==
  /\ Len(calls) <= Len(arcs)
  /\ \A k \in 1..Len(calls) : calls[k].arc = arcs[k]
  /\ r.feasible =>
       /\ Len(calls) = Len(arcs)
       /\ r.domains = once
       /\ \A d \in Dominoes \ NeighboursBy(arcs) : r.domains[d] = domains[d]
       /\ \A d \in NeighboursBy(arcs) : Range(r.domains[d]) \subseteq Range(domains[d])

\* C23: forward checking processes each arc generated for the domino just
\* assigned once, in order, and appends none to the queue; in its result the
\* domain of a domino that is not a direct neighbour of that domino (by an
\* adjacency or a quota arc) is unchanged, and a neighbour's domain is a subset
\* of what it was.
ForwardCheckingSinglePass ==
  (PendingInference /\ inference_mode = FC) =>
    SinglePass(Top.domains, GeneratedArcs, ReviseCalls, Inferred,
               RevisedInTurn(GeneratedArcs, Top.domains, Assigned.s))

\* C23 witness: a feasible run of forward checking over several arcs that
\* narrows a neighbour's domain while an unresolved domino is no neighbour.
ForwardCheckingNarrowedNeighbour ==
  /\ PendingInference /\ inference_mode = FC
  /\ Inferred.feasible
  /\ Len(GeneratedArcs) >= 2
  /\ \E d \in NeighboursBy(GeneratedArcs) : Len(Inferred.domains[d]) < Len(Top.domains[d])
  /\ \E d \in Dominoes \ (NeighboursBy(GeneratedArcs) \cup {Top.var_index}) :
       Assigned.s.assignment[d] = ValueUnassigned

(* ------------------------ the work queue of MAC ------------------------ *)
\* The work queue and the domains each time the loop of
\* maintaining_arc_consistency tests the queue, the last test included unless a
\* revision was infeasible.
RECURSIVE MacQueues(_, _, _)
MacQueuesAfter(r, s, arc_queue) ==
  IF ~r.feasible THEN <<>>
  ELSE MacQueues(r.domains, s,
                 IF r.revised
                 THEN Tail(arc_queue) \o generate_arc_constraints(
                        Head(arc_queue).xi, s.assignment, Head(arc_queue).xj)
                 ELSE Tail(arc_queue))

MacQueues(domains, s, arc_queue) ==
  <<[queue |-> arc_queue, domains |-> domains]>>
  \o (IF arc_queue = <<>> THEN <<>>
      ELSE MacQueuesAfter(revise(Head(arc_queue), domains, s), s, arc_queue))

\* The unresolved dominoes, other than x and the source, with a cell next to a
\* pole of x or in the row or the column of a pole of x.
UnresolvedNeighbours(x, source, s) ==
  {n \in Dominoes \ {x, source} :
     /\ s.assignment[n] = ValueUnassigned
     /\ \E p \in PolesOf(x), c \in PolesOf(n) : Adjacent(p, c) \/ SameLine(p, c)}

\* One turn of the loop: `now` and `next` are consecutive entries of MacQueues,
\* r the result of revising the arc at the head of now.queue.
AppendsForNarrowed(now, next, r, s) ==
  /\ Len(next.queue) >= Len(now.queue) - 1
  /\ SubSeq(next.queue, 1, Len(now.queue) - 1) = Tail(now.queue)
  /\ ~r.revised => Len(next.queue) = Len(now.queue) - 1
  /\ r.revised =>
       /\ \A i \in Len(now.queue)..Len(next.queue) : next.queue[i].xj = Head(now.queue).xi
       /\ {next.queue[i].xi : i \in Len(now.queue)..Len(next.queue)}
            = UnresolvedNeighbours(Head(now.queue).xi, Head(now.queue).xj, s)

QueuesFollow(queues, s) ==
  \A k \in 1..(Len(queues) - 1) :
    AppendsForNarrowed(queues[k], queues[k + 1],
                       revise(Head(queues[k].queue), queues[k].domains, s), s)

\* C24: under MAC, every time revise narrows the domain of an arc's dependent X,
\* the arcs between X and each of X's unresolved neighbours other than the arc's
\* source are appended to the tail of the queue before the next arc is taken;
\* when revise narrows nothing, nothing is appended.
MacAppendsArcsOfNarrowed ==
  (PendingInference /\ inference_mode = MAC) =>
    QueuesFollow(MacQueues(Top.domains, Assigned.s, GeneratedArcs), Assigned.s)

(* ----------------------------- termination ----------------------------- *)
\* The values left in all the domains.
RECURSIVE TotalSize(_)
TotalSize(domains) ==
  IF domains = <<>> THEN 0 ELSE Len(Head(domains)) + TotalSize(Tail(domains))

\* Between two tests of the queue an arc is taken off, and arcs are added only
\* when the values left in the domains have become fewer.
QueueGrowsOnlyOnShrink(queues) ==
  \A k \in 1..(Len(queues) - 1) :
    /\ Len(queues[k + 1].queue) >= Len(queues[k].queue) - 1
    /\ Len(queues[k + 1].queue) > Len(queues[k].queue) - 1
         => TotalSize(queues[k + 1].domains) < TotalSize(queues[k].domains)

MacLoopShrinks ==
  (PendingInference /\ inference_mode = MAC) =>
    QueueGrowsOnlyOnShrink(MacQueues(Top.domains, Assigned.s, GeneratedArcs))

\* The place of the search in the tree of calls, read as a number: a frame's
\* loop index k is a digit, the first frame the most significant one.  A domain
\* has at most the three orientations, so k is below Radix.
Radix == Cardinality(Polarities \cup {ValueEmpty}) + 2

RECURSIVE Power(_, _)
Power(b, n) == IF n <= 0 THEN 1 ELSE b * Power(b, n - 1)

RECURSIVE PlaceFrom(_)
PlaceFrom(i) ==
  IF i > Len(stack) THEN 0
  ELSE stack[i].k * Power(Radix, Len(variables) - i) + PlaceFrom(i + 1)

DoneRank == 2 * Power(Radix, Len(variables)) + 2

\* The rank of a state: solve, then the place in the tree (a call of backtrack
\* ranks just above the loop turn that made it), then done; the MAC run ranks
\* above the whole FC run.
Rank ==
  (IF inference_mode = MAC THEN DoneRank + 1 ELSE 0)
  + (IF pc = "solve" THEN 0
     ELSE IF pc = "done" THEN DoneRank
     ELSE 1 + 2 * PlaceFrom(1) + (IF pc = "backtrack" THEN 1 ELSE 0))

RankBounded ==
  /\ Rank <= 2 * DoneRank + 1
  /\ pc \in {"solve", "backtrack", "loop", "done"}
  /\ pc = "loop" => stack # <<>>
  /\ \A n \in 1..Len(stack) : stack[n].k \in 1..(Radix - 1)
  /\ Len(stack) <= Len(variables)

\* C25: solve() terminates in both inference modes: every step of a run takes
\* the search to a state of higher rank, and the rank is bounded; and arcs are
\* put back on the queue of MAC only after a revision that strictly shrinks a
\* domain, so the queue loop runs out as well.
SolveTerminates ==
  /\ []MacLoopShrinks
  /\ []RankBounded
  /\ [][Rank' > Rank]_vars

\* C25 witness: a propagation of MAC that put arcs back on the queue and went
\* through more arcs than were generated for the assigned domino.
MacWentThroughAppendedArcs ==
  /\ PendingInference /\ inference_mode = MAC
  /\ Len(ReviseCalls) > Len(GeneratedArcs)

(* ------------------------ domains passed by value ---------------------- *)
\* Every domain of ds is, value by value, within the domain of the same domino
\* in of.
DomainsWithin(ds, of) ==
  /\ Len(ds) = Len(of)
  /\ \A d \in 1..Len(ds) : Range(ds[d]) \subseteq Range(of[d])

\* The domains a call of backtrack was given are within those of its caller,
\* for the calls on the stack and for the call being made.
ChildWithinParent ==
  /\ \A n \in 1..(Len(stack) - 1) : DomainsWithin(stack[n + 1].domains, stack[n].domains)
  /\ (pc = "backtrack" /\ stack # <<>>) => DomainsWithin(call_domains, Top.domains)
  /\ stack # <<>> => DomainsWithin(stack[1].domains, InitialDomain)

NoUnresolvedIn(ds) == \A d \in 1..Len(ds) : ValueUnassigned \notin Range(ds[d])

NoDomainHoldsUnresolved ==
  /\ \A n \in 1..Len(stack) : NoUnresolvedIn(stack[n].domains)
  /\ pc = "backtrack" => NoUnresolvedIn(call_domains)
  /\ PendingInference /\ Inferred.feasible => NoUnresolvedIn(Inferred.domains)

\* A step leaves the domains and the ordered values of every search node that
\* stays on the stack as the node was entered with.
FramesKeepDomains ==
  \A n \in 1..Len(stack) :
    n <= Len(stack') =>
      /\ stack'[n].domains = stack[n].domains
      /\ stack'[n].values = stack[n].values
      /\ stack'[n].var_index = stack[n].var_index

\* C26: propagation never modifies the domains of the search node that called
\* it, so every candidate value of a node is tried against the domains the node
\* was entered with; the domains handed to a child node are, domino by domino,
\* a subset of the parent's; and no domain ever contains Unassigned.
DomainsThreadedByValue ==
  /\ []ChildWithinParent
  /\ []NoDomainHoldsUnresolved
  /\ [][FramesKeepDomains]_vars

\* C26 witness: a node is trying a later candidate value after a nested call,
\* which had been handed strictly narrower domains, returned None; the node
\* still holds the domains it was entered with.
RetriedAfterNarrowedChild ==
  /\ pc = "loop"
  /\ Len(stack) >= 2
  /\ stack[Len(stack) - 1].k > 1
  /\ Top.domains # stack[Len(stack) - 1].domains
  /\ Top.k > Len(Top.values)

(* --------------------------- a refused value --------------------------- *)
Refused == InLoop /\ ~Assigned.ok

\* assign refuses only a polarity whose domino has a cell that is not Unmarked,
\* and hands the state store back as it found it.
RefusalLeavesStore ==
  Refused =>
    /\ Value \in Polarities
    /\ \E c \in PolesOf(Top.var_index) : board[c] # CellUnassigned
    /\ Assigned.s = Store

\* The value Unassigned is refused for every domino, the store handed back as
\* it was found.
UnassignedRefused ==
  \A d \in Dominoes : assign(Store, ValueUnassigned, d) = [ok |-> FALSE, s |-> Store]

\* The step of the loop over a refused value changes neither the board, nor
\* the counters, nor the assignment: unassign is not called for it.
RefusedStepKeepsStore == Refused => UNCHANGED <<store, assignment>>

\* C27: when assign returns false (a polarity onto a domino with a cell that
\* is not Unmarked, or the value Unassigned) the board marks, the four counter arrays and the
\* assignment vector are all unchanged, and backtrack does not call unassign
\* for that value.
RefusedAssignChangesNothing ==
  /\ []RefusalLeavesStore
  /\ []UnassignedRefused
  /\ [][RefusedStepKeepsStore]_vars

\* C27 witness: the loop has gone past a value that assign refused.
WentPastRefusedValue ==
  /\ pc = "loop"
  /\ stack # <<>>
  /\ Top.k > 1
  /\ Top.k - 1 <= Len(Top.values)
  /\ ~assign(Store, Top.values[Top.k - 1], Top.var_index).ok

(* ------------------------ arcs and orphan cells ------------------------ *)
\* A cell that belongs to no domino.
Orphan(cell) == \A d \in Dominoes : cell \notin PolesOf(d)

\* The cells generate_arc_constraints looks at for one pole of a domino.
ArcSources(var_index, pole_number) ==
  Range(get_neighboring_cells(Pole(var_index, pole_number),
                              Pole(var_index, (pole_number + 1) % 2)))
  \cup Range(get_limiting_cells(Pole(var_index, pole_number),
                                Pole(var_index, (pole_number + 1) % 2)))

\* The arc that arises from the cell names a domino and a pole of it that is
\* the cell.
ArcNamesCell(cell) ==
  Pole(board_variable_association[cell],
       get_pole_number(board_variable_association[cell], cell)) = cell

\* The calls of generate_arc_constraints made while the values of the selected
\* domino are scored, before any of them is assigned.
ScoringCalls ==
  IF pc = "backtrack" /\ ~is_complete(assignment)
     /\ select_unassigned_variable(call_domains, assignment) # 0
  THEN {[var_index |-> select_unassigned_variable(call_domains, assignment),
         except_neighbor |-> select_unassigned_variable(call_domains, assignment),
         a |-> assignment]}
  ELSE {}

PropagationCalls ==
  IF PendingInference
  THEN {[var_index |-> g.var_index, except_neighbor |-> g.except_neighbor,
         a |-> Assigned.s.assignment] : g \in GenerateCalls}
  ELSE {}

\* Every arc of the calls names the cell it arose from.
EmittedArcsNameTheirCells ==
  \A g \in ScoringCalls \cup PropagationCalls, pole_number \in {0, 1} :
    \A cell \in ArcSources(g.var_index, pole_number) :
      Eligible(cell, g.var_index, g.a, g.except_neighbor) => ArcNamesCell(cell)

\* The lookup attributes no orphan cell to a domino.
LookupSkipsOrphans ==
  \A cell \in Grid : Orphan(cell) => board_variable_association[cell] \notin Dominoes

\* C28: every arc emitted by generate_arc_constraints names a dependent domino
\* and a pole index p of it such that the dependent's pole p is the cell that
\* gave rise to the arc; an orphan cell never gives rise to an arc and is never
\* attributed to any domino by the cell-to-domino lookup.
ArcsNameCellsAndOrphansUnowned ==
  /\ EmittedArcsNameTheirCells
  /\ LookupSkipsOrphans

(* ------------------------- the dominoes of new ------------------------- *)
\* A domino is a pair of cells of the grid, pole 1 directly below or directly
\* right of pole 0, and its index is its position in the list.
WellShaped(d) ==
  /\ Pole(d, 0) \in Grid /\ Pole(d, 1) \in Grid
  /\ \/ Pole(d, 1) = <<Pole(d, 0)[1] + 1, Pole(d, 0)[2]>>
     \/ Pole(d, 1) = <<Pole(d, 0)[1], Pole(d, 0)[2] + 1>>
  /\ variables[d].index = d

DominoesWellShaped == \A d \in Dominoes : WellShaped(d)

NoSharedCell == \A d \in Dominoes, e \in Dominoes : d # e => PolesOf(d) \cap PolesOf(e) = {}

\* C29: for every raw marker grid the dominoes built by CSP::new are pairwise
\* disjoint: each is a pair of in-bounds cells with pole 1 directly below or
\* directly right of pole 0, its index equals its position in the variable
\* list, and no cell is a pole of two different dominoes.
DominoesPairwiseDisjoint == DominoesWellShaped /\ NoSharedCell

(* ----------------------- the board of a result ------------------------- *)
\* The board carries, on both cells of every domino, the marks of the
\* domino's orientation in a.
BoardReflects(a) ==
  \A d \in Dominoes : \A p \in {0, 1} :
    /\ board[Pole(d, p)] # CellUnassigned
    /\ board[Pole(d, p)] = MarkOf(a[d], p)

\* C30: when solve() returns Some(a) the board left behind reflects a exactly:
\* Pole1PositivePole2Negative means pole 0 Positive and pole 1 Negative,
\* Pole2PositivePole1Negative the reverse, Empty both poles Empty; no domino
\* cell is Unmarked, and the running counters equal a scan of that board.
ReturnedBoardReflectsResult ==
  Returned => BoardReflects(result.value) /\ CountersEqualScan

====
